---- MODULE Spec2Model ----
(***************************************************************************)
(* Model of src/app.py, the two-column MCQ extractor: the text normaliser, *)
(* the textual and geometric question detectors, the OCR quality gate and  *)
(* the per-region extraction loop.                                         *)
(*                                                                         *)
(* A text is a sequence of one-character strings.  Three characters that   *)
(* TLA+ strings cannot hold are written as names: "NUL" is \x00, "ndash"   *)
(* is U+2013 and "mdash" is U+2014.                                        *)
(***************************************************************************)
EXTENDS Integers, Sequences, FiniteSets, TLC

\* ------------------------------------------------------------------------
\* Character classes of Python's re module
\* ------------------------------------------------------------------------
NUL == "NUL"

Digits == {"0", "1", "2", "3", "4", "5", "6", "7", "8", "9"}

Whitespace == {" ", "\n", "\t"}

Letters ==
    {"a", "b", "c", "d", "e", "f", "g", "h", "i", "j", "k", "l", "m", "n",
     "o", "p", "q", "r", "s", "t", "u", "v", "w", "x", "y", "z",
     "A", "B", "C", "D", "E", "F", "G", "H", "I", "J", "K", "L", "M", "N",
     "O", "P", "Q", "R", "S", "T", "U", "V", "W", "X", "Y", "Z"}

WordChars == Letters \cup Digits \cup {"_"}

Dashes == {"-", "ndash", "mdash"}

ChoiceLetters == {"A", "B", "C", "D", "E"}

\* re.IGNORECASE on the letters of the keyword patterns
Lower(c) ==
    CASE c = "Q" -> "q" [] c = "U" -> "u" [] c = "E" -> "e" [] c = "S" -> "s"
      [] c = "T" -> "t" [] c = "I" -> "i" [] c = "O" -> "o" [] c = "N" -> "n"
      [] OTHER -> c

\* ------------------------------------------------------------------------
\* Scanning helpers
\* ------------------------------------------------------------------------
\* F(v) with v evaluated once: a local variable of the code
Let(v, F(_)) == CHOOSE r \in {F(x) : x \in {v}} : TRUE

\* first index >= p whose character is not in S (Len(t) + 1 when none)
RECURSIVE SkipWhile(_, _, _)
SkipWhile(t, p, S) ==
    IF p <= Len(t) /\ t[p] \in S THEN SkipWhile(t, p + 1, S) ELSE p

\* first index >= p whose character is c (Len(t) + 1 when none)
RECURSIVE FindChar(_, _, _)
FindChar(t, p, c) ==
    IF p <= Len(t) /\ t[p] # c THEN FindChar(t, p + 1, c) ELSE p

At(t, p) == IF p >= 1 /\ p <= Len(t) THEN t[p] ELSE "EOT"

Min(a, b) == IF a < b THEN a ELSE b

Max(a, b) == IF a > b THEN a ELSE b

Abs(x) == IF x < 0 THEN 0 - x ELSE x

\* str.strip()
RECURSIVE LastNonWs(_, _)
LastNonWs(t, p) ==
    IF p >= 1 /\ t[p] \in Whitespace THEN LastNonWs(t, p - 1) ELSE p

Strip(t) == SubSeq(t, SkipWhile(t, 1, Whitespace), LastNonWs(t, Len(t)))

NotNul(c) == c # NUL

\* clean_text: drop the null characters, then strip
clean_text(text) == Let(SelectSeq(text, NotNul), LAMBDA t : Strip(t))

\* ------------------------------------------------------------------------
\* preprocess_ocr_text
\* ------------------------------------------------------------------------
\* re.sub(r'\s+', ' ', text)
RECURSIVE CollapseWhitespace(_, _)
CollapseWhitespace(t, p) ==
    IF p > Len(t) THEN <<>>
    ELSE IF t[p] \in Whitespace
         THEN Let(SkipWhile(t, p, Whitespace),
                  LAMBDA e : <<" ">> \o CollapseWhitespace(t, e))
         ELSE <<t[p]>> \o CollapseWhitespace(t, p + 1)

\* re.sub(r'(\d+)[S](\s)', r'\1.\2', text): a character of S that follows a
\* digit and precedes a whitespace becomes a period.  The matches of one pass
\* never overlap (each starts with a digit and ends with the whitespace), so
\* the substitution acts on each such character independently.
FixMarker(t, S) ==
    [k \in 1..Len(t) |->
        IF t[k] \in S /\ At(t, k - 1) \in Digits /\ At(t, k + 1) \in Whitespace
        THEN "." ELSE t[k]]

\* re.sub(r'(\d+)\.(\w)', r'\1. \2', text): left-to-right, non-overlapping;
\* the word character of a match is consumed, so "1.2.3" becomes "1. 2.3".
RECURSIVE SpaceAfterNumber(_, _)
SpaceAfterNumber(t, p) ==
    IF p > Len(t) THEN <<>>
    ELSE IF t[p] \in Digits
         THEN Let(SkipWhile(t, p, Digits), LAMBDA e :
                  IF At(t, e) = "." /\ At(t, e + 1) \in WordChars
                  THEN SubSeq(t, p, e - 1) \o <<".", " ", t[e + 1]>>
                         \o SpaceAfterNumber(t, e + 2)
                  ELSE SubSeq(t, p, e - 1) \o SpaceAfterNumber(t, e))
         ELSE <<t[p]>> \o SpaceAfterNumber(t, p + 1)

\* re.sub(r'\n{3,}', '\n\n', text)
RECURSIVE CollapseLineBreaks(_, _)
CollapseLineBreaks(t, p) ==
    IF p > Len(t) THEN <<>>
    ELSE IF t[p] = "\n"
         THEN Let(SkipWhile(t, p, {"\n"}), LAMBDA e :
                  (IF e - p >= 3 THEN <<"\n", "\n">> ELSE SubSeq(t, p, e - 1))
                    \o CollapseLineBreaks(t, e))
         ELSE <<t[p]>> \o CollapseLineBreaks(t, p + 1)

preprocess_ocr_text(ocr_text) ==
    Let(SelectSeq(ocr_text, NotNul),  LAMBDA t1 :
    Let(CollapseWhitespace(t1, 1),    LAMBDA t2 :
    Let(FixMarker(t2, {"o", "O"}),    LAMBDA t3 :
    Let(FixMarker(t3, {"l"}),         LAMBDA t4 :
    Let(FixMarker(t4, {","}),         LAMBDA t5 :
    Let(SpaceAfterNumber(t5, 1),      LAMBDA t6 :
    CollapseLineBreaks(t6, 1)))))))

\* ------------------------------------------------------------------------
\* The boundary patterns of enhanced_question_detection
\* ------------------------------------------------------------------------
\* Patterns 1..6 are the list `patterns` in order; pattern 0 is the fallback
\* pattern of split_questions_from_ocr_enhanced.
Patterns == 1..6

FallbackPattern == 0

\* end (exclusive) of \d{1,3} followed by the character class S at g, else 0
NumberThen(t, g, S) ==
    Let(SkipWhile(t, g, Digits), LAMBDA e :
        IF e > g /\ e - g <= 3 /\ At(t, e) \in S THEN e + 1 ELSE 0)

\* end (exclusive) of \d{1,3}\.? at g, else 0: greedy, never backtracks
\* because nothing that can fail follows it
NumberOptDot(t, g) ==
    Let(SkipWhile(t, g, Digits), LAMBDA e :
        IF e = g THEN 0
        ELSE IF At(t, g + Min(e - g, 3)) = "." THEN g + Min(e - g, 3) + 1
             ELSE g + Min(e - g, 3))

Keyword == <<"q", "u", "e", "s", "t", "i", "o", "n">>

\* end (exclusive) of the capture group of pattern k when it starts at g,
\* else 0
GroupEnd(k, t, g) ==
    CASE k \in {0, 1} -> NumberThen(t, g, {"."})
      [] k = 2 -> IF Lower(At(t, g)) = "q" THEN NumberOptDot(t, g + 1) ELSE 0
      [] k = 3 -> NumberThen(t, g, {")"})
      [] k = 4 -> IF At(t, g) = "(" THEN NumberThen(t, g + 1, {")"}) ELSE 0
      [] k = 5 ->
           IF \A j \in 1..Len(Keyword) : Lower(At(t, g + j - 1)) = Keyword[j]
           THEN Let(SkipWhile(t, g + Len(Keyword), Whitespace), LAMBDA w :
                    IF w > g + Len(Keyword) THEN NumberOptDot(t, w) ELSE 0)
           ELSE 0
      [] k = 6 ->
           Let(NumberThen(t, g, Dashes), LAMBDA d :
               IF d = 0 THEN 0 ELSE SkipWhile(t, d, Whitespace))

NoMatch == [start |-> 0, gs |-> 0, ge |-> 0, end |-> 0]

\* `^` is a line start under re.MULTILINE (patterns 1..6) and the start of
\* the text otherwise (the fallback pattern)
LineStart(k, t, p) == p = 1 \/ (k # FallbackPattern /\ At(t, p - 1) = "\n")

\* where the group of the match of (?:^|\n)(group) at p starts, else 0: the
\* alternative ^ is tried first, then the alternative \n
GroupStart(k, t, p) ==
    IF LineStart(k, t, p) /\ GroupEnd(k, t, p) > 0 THEN p
    ELSE IF At(t, p) = "\n" /\ GroupEnd(k, t, p + 1) > 0 THEN p + 1
    ELSE 0

\* the match of pattern k that starts at p; patterns 1..5 end with \s*
MatchAt(k, t, p) ==
    Let(GroupStart(k, t, p), LAMBDA gs :
        IF gs = 0 THEN NoMatch
        ELSE Let(GroupEnd(k, t, gs), LAMBDA ge :
                 [start |-> p, gs |-> gs, ge |-> ge,
                  end |-> IF k \in 1..5 THEN SkipWhile(t, ge, Whitespace) ELSE ge]))

\* re.finditer / the matches re.split cuts at: leftmost, non-overlapping
RECURSIVE FindIter(_, _, _)
FindIter(k, t, p) ==
    IF p > Len(t) THEN <<>>
    ELSE Let(MatchAt(k, t, p), LAMBDA m :
             IF m.end > 0 THEN <<m>> \o FindIter(k, t, m.end)
             ELSE FindIter(k, t, p + 1))

\* the loop over `patterns`: the first pattern with the strictly greatest
\* number of matches
RECURSIVE BestMatches(_, _, _)
BestMatches(t, k, best_matches) ==
    IF k > 6 THEN best_matches
    ELSE Let(FindIter(k, t, 1), LAMBDA current_matches :
             IF Len(current_matches) > Len(best_matches)
             THEN BestMatches(t, k + 1, current_matches)
             ELSE BestMatches(t, k + 1, best_matches))

enhanced_question_detection(ocr_text) == BestMatches(ocr_text, 1, <<>>)

\* ------------------------------------------------------------------------
\* split_questions_from_ocr_enhanced
\* ------------------------------------------------------------------------
IsChoiceAt(t, p) ==
    At(t, p) = "(" /\ At(t, p + 1) \in ChoiceLetters /\ At(t, p + 2) = ")"

\* re.sub(r'\s*\([A-E]\)[^(]*(?=\([A-E]\)|\s*$)', '', text).  [^(]* runs to
\* the next "(" or to the end; the lookahead holds there when that is the
\* end of the text or another choice label, and at no shorter length.
RECURSIVE RemoveChoices(_, _)
RemoveChoices(t, p) ==
    IF p > Len(t) THEN <<>>
    ELSE Let(SkipWhile(t, p, Whitespace), LAMBDA w :
         Let(FindChar(t, w + 3, "("), LAMBDA e :
             IF IsChoiceAt(t, w) /\ (e > Len(t) \/ IsChoiceAt(t, e))
             THEN RemoveChoices(t, e)
             ELSE <<t[p]>> \o RemoveChoices(t, p + 1)))

\* the text between the end of match n and the start of the next match
SpanAfter(t, matches, n) ==
    SubSeq(t, matches[n].end,
           (IF n + 1 <= Len(matches) THEN matches[n + 1].start ELSE Len(t) + 1) - 1)

GroupText(t, m) == SubSeq(t, m.gs, m.ge - 1)

\* the stem of match n: the span, stripped, with the answer choices removed
QuestionText(t, matches, n) ==
    Let(Strip(SpanAfter(t, matches, n)), LAMBDA question_text :
        RemoveChoices(question_text, 1))

\* the fallback: pattern.split, then the pairs (number, text)
FallbackSplit(cleaned_text) ==
    Let(FindIter(FallbackPattern, cleaned_text, 1), LAMBDA parts :
        [n \in 1..Len(parts) |->
            [num |-> Strip(GroupText(cleaned_text, parts[n])),
             text |-> Strip(SpanAfter(cleaned_text, parts, n))]])

split_questions_from_ocr_enhanced(ocr_text) ==
    Let(preprocess_ocr_text(ocr_text), LAMBDA cleaned_text :
    Let(enhanced_question_detection(cleaned_text), LAMBDA matches :
        IF matches = <<>> THEN FallbackSplit(cleaned_text)
        ELSE [n \in 1..Len(matches) |->
                [num |-> Strip(GroupText(cleaned_text, matches[n])),
                 text |-> QuestionText(cleaned_text, matches, n)]]))

\* ------------------------------------------------------------------------
\* detect_question_boundaries_advanced
\* ------------------------------------------------------------------------
\* A token of pytesseract's image_to_data is [text, conf, top, left]; conf is
\* an integer in -1..100, -1 meaning "unknown".  The width and height of a
\* token are only read by the horizontal trim, whose result is an input of
\* CropStep below.
ConfidenceFloor == 30

DuplicateTop == 10

DuplicateLeft == 20

\* re.match of the four token patterns on the stripped token text
MatchesNumberDot(t) == NumberThen(t, 1, {"."}) = Len(t) + 1

MatchesBoundaryToken(t) ==
    \/ MatchesNumberDot(t)
    \/ /\ At(t, 1) = "Q"
       /\ LET e == SkipWhile(t, 2, Digits)
          IN  /\ e > 2 /\ e - 2 <= 3
              /\ (e = Len(t) + 1 \/ (e = Len(t) /\ t[e] = "."))
    \/ NumberThen(t, 1, {")"}) = Len(t) + 1
    \/ (At(t, 1) = "(" /\ NumberThen(t, 2, {")"}) = Len(t) + 1)

Confidence(tok) == IF tok.conf = -1 THEN 0 ELSE tok.conf

IsCandidate(tok) ==
    MatchesBoundaryToken(Strip(tok.text)) /\ Confidence(tok) > ConfidenceFloor

Close(a, b) ==
    Abs(a.top - b.top) < DuplicateTop /\ Abs(a.left - b.left) < DuplicateLeft

\* a slip: `or` for `and`
is_duplicate_either(question_positions, tok) ==
    \E n \in 1..Len(question_positions) :
        \/ Abs(question_positions[n].top - tok.top) < DuplicateTop
        \/ Abs(question_positions[n].left - tok.left) < DuplicateLeft

is_duplicate(question_positions, tok) ==
    \E n \in 1..Len(question_positions) : Close(question_positions[n], tok)

PositionOf(tok) ==
    [top |-> tok.top, left |-> tok.left, text |-> Strip(tok.text),
     confidence |-> Confidence(tok)]

\* the loop over data['text']
RECURSIVE ScanTokens(_, _, _)
ScanTokens(data, n, question_positions) ==
    IF n > Len(data) THEN question_positions
    ELSE IF IsCandidate(data[n]) /\ ~is_duplicate(question_positions, data[n])
         THEN Let(Append(question_positions, PositionOf(data[n])),
                  LAMBDA appended : ScanTokens(data, n + 1, appended))
         ELSE ScanTokens(data, n + 1, question_positions)

KeyLE(a, b) == a.top < b.top \/ (a.top = b.top /\ a.left <= b.left)

\* a slip: the detections are left in token order
Unsorted(s) == s

\* list.sort(key=(top, left)): stable
RECURSIVE SortPositions(_)
SortPositions(s) ==
    IF s = <<>> THEN <<>>
    ELSE Let(SortPositions(SubSeq(s, 1, Len(s) - 1)), LAMBDA rest :
         Let(Cardinality({n \in 1..Len(rest) : KeyLE(rest[n], s[Len(s)])}), LAMBDA k :
             SubSeq(rest, 1, k) \o <<s[Len(s)]>> \o SubSeq(rest, k + 1, Len(rest))))

detect_question_boundaries_advanced(data) ==
    SortPositions(ScanTokens(data, 1, <<>>))

\* ------------------------------------------------------------------------
\* validate_ocr_quality
\* ------------------------------------------------------------------------
QualityThreshold == 50

RECURSIVE SumSeq(_)
SumSeq(s) == IF s = <<>> THEN 0 ELSE Head(s) + SumSeq(Tail(s))

Counted(conf) == conf # -1 /\ conf > 0

\* [int(conf) for conf in data['conf'] if conf != '-1' and int(conf) > 0]
Confidences(data) == SelectSeq([n \in 1..Len(data) |-> data[n].conf], Counted)

\* a slip: >= for >
validate_ocr_quality_at_least(data) ==
    Let(Confidences(data), LAMBDA confidences :
        IF confidences = <<>> THEN FALSE
        ELSE SumSeq(confidences) >= QualityThreshold * Len(confidences))

\* sum / len > 50 on floats is sum > 50 * len on integers
validate_ocr_quality(data) ==
    Let(Confidences(data), LAMBDA confidences :
        IF confidences = <<>> THEN FALSE
        ELSE SumSeq(confidences) > QualityThreshold * Len(confidences))

\* ------------------------------------------------------------------------
\* extract_questions_from_columns_enhanced
\* ------------------------------------------------------------------------
VARIABLES
    pc,                  \* "region": before a column; "crop": in the crop loop;
                         \* "done": returned; "input"/"output": a function alone
    total_pages,         \* len(doc)
    page_num, col_num,   \* the loop indices (0-based)
    ocr_text, data,      \* what the recognition engine gave for the column
    img_height,          \* img.height
    questions, question_positions, question_tops,
    i,                   \* index of the crop loop (0-based)
    extracted, processing_stats,
    messages,            \* st.warning / st.error calls so far
    returned             \* the value returned

vars == <<pc, total_pages, page_num, col_num, ocr_text, data, img_height,
          questions, question_positions, question_tops, i, extracted,
          processing_stats, messages, returned>>

CropMargin == 15

MinRegionHeight == 20

MinCropWidth == 50

ImageOnly == <<"(", "i", "m", "a", "g", "e", " ", "o", "n", "l", "y", ")">>

RECURSIVE SortedSeq(_)
SortedSeq(S) ==
    IF S = {} THEN <<>>
    ELSE Let(CHOOSE x \in S : \A y \in S : x <= y, LAMBDA m :
         Let(S \ {m}, LAMBDA rest : <<m>> \o SortedSeq(rest)))

GeometricTops(positions) == [n \in 1..Len(positions) |-> positions[n].top]

\* a slip: every token is taken for a question number
FallbackTopsAnyToken(d) == SortedSeq({d[n].top : n \in 1..Len(d)})

\* the else branch: the tops of the tokens that read N., each once, sorted
FallbackTops(d) ==
    SortedSeq({d[n].top : n \in {m \in 1..Len(d) : MatchesNumberDot(Strip(d[m].text))}})

\* "Use the better of the two detection methods", then the image height
SelectTops(qs, positions, d, h) ==
    (IF Len(positions) > Len(qs) THEN GeometricTops(positions) ELSE FallbackTops(d))
      \o <<h>>

\* a slip: one count per token of a low-quality column
LowQualityPerToken(d) == IF ~validate_ocr_quality(d) THEN Len(d) ELSE 0

LowQualityIncrement(d) == IF ~validate_ocr_quality(d) THEN 1 ELSE 0

CropTop(tops, n) == Max(0, tops[n] - CropMargin)

CropBottom(tops, n) == tops[n + 1]

\* a slip: only the width is looked at
SkipCropWidthOnly(y1, y2, w) == w < MinCropWidth

\* the two `continue`s of the crop loop: the region is under 20 pixels tall,
\* or the trimmed crop is under 50 wide or under 20 tall (trimming is
\* horizontal, so the crop is y2 - y1 tall)
SkipCrop(y1, y2, w) ==
    \/ y2 - y1 < MinRegionHeight
    \/ w < MinCropWidth
    \/ y2 - y1 < MinRegionHeight

Record(n, y1, y2, w) ==
    [text |-> clean_text(IF n <= Len(questions) THEN Strip(questions[n].text)
                         ELSE ImageOnly),
     image |-> [top |-> y1, bottom |-> y2, width |-> w],
     confidence |-> IF n <= Len(question_positions)
                    THEN question_positions[n].confidence ELSE 0,
     page |-> page_num + 1,
     column |-> col_num + 1]

\* the two for loops: the next column, then the next page
Advance ==
    /\ col_num' = 1 - col_num
    /\ page_num' = IF col_num = 1 THEN page_num + 1 ELSE page_num
    /\ pc' = "region"

\* lines 253-293: rasterise, recognise, gate, detect, choose the anchors
BeginRegion(text, d, h) ==
    /\ pc = "region" /\ page_num < total_pages
    /\ ocr_text' = text /\ data' = d /\ img_height' = h
    /\ processing_stats' =
         [processing_stats EXCEPT !.low_quality_pages = @ + LowQualityIncrement(d)]
    /\ messages' = IF validate_ocr_quality(d) THEN messages
                   ELSE messages \cup {<<"warning", page_num + 1, col_num + 1>>}
    /\ \E qs \in {split_questions_from_ocr_enhanced(text)},
          positions \in {detect_question_boundaries_advanced(d)} :
            /\ questions' = qs
            /\ question_positions' = positions
            /\ question_tops' = SelectTops(qs, positions, d, h)
    /\ i' = 0
    /\ pc' = "crop"
    /\ UNCHANGED <<total_pages, page_num, col_num, extracted, returned>>

\* a slip: the counter also counts the spans the loop skips
CropStepCountsSkipped(w) ==
    /\ pc = "crop" /\ i < Len(question_tops) - 1
    /\ LET y1 == CropTop(question_tops, i + 1)
           y2 == CropBottom(question_tops, i + 1)
       IN  /\ extracted' = IF SkipCrop(y1, y2, w) THEN extracted
                           ELSE Append(extracted, Record(i + 1, y1, y2, w))
           /\ processing_stats' =
                [processing_stats EXCEPT !.questions_found = @ + 1]
    /\ i' = i + 1
    /\ UNCHANGED <<pc, total_pages, page_num, col_num, ocr_text, data, img_height,
                   questions, question_positions, question_tops, messages, returned>>

\* one iteration of the crop loop; w is the width left by the two trims
CropStep(w) ==
    /\ pc = "crop" /\ i < Len(question_tops) - 1
    /\ LET y1 == CropTop(question_tops, i + 1)
           y2 == CropBottom(question_tops, i + 1)
       IN  IF SkipCrop(y1, y2, w)
           THEN UNCHANGED <<extracted, processing_stats>>
           ELSE /\ extracted' = Append(extracted, Record(i + 1, y1, y2, w))
                /\ processing_stats' =
                     [processing_stats EXCEPT !.questions_found = @ + 1]
    /\ i' = i + 1
    /\ UNCHANGED <<pc, total_pages, page_num, col_num, ocr_text, data, img_height,
                   questions, question_positions, question_tops, messages, returned>>

\* the crop loop is exhausted: on to the next column
EndRegion ==
    /\ pc = "crop" /\ i = Len(question_tops) - 1
    /\ Advance
    /\ UNCHANGED <<total_pages, ocr_text, data, img_height, questions,
                   question_positions, question_tops, i, extracted,
                   processing_stats, messages, returned>>

\* a slip: the exception is reported and the run ends there
RegionFailAborts ==
    /\ \/ pc = "region" /\ page_num < total_pages
       \/ pc = "crop"
    /\ messages' = messages \cup {<<"error", page_num + 1, col_num + 1>>}
    /\ pc' = "done"
    /\ UNCHANGED <<total_pages, page_num, col_num, ocr_text, data, img_height,
                   questions, question_positions, question_tops, i, extracted,
                   processing_stats, returned>>

\* except Exception: st.error, continue.  The exception may come from the
\* rasteriser or the recognition engine (before anything of the column is
\* computed) or from the image library inside the crop loop.
RegionFail ==
    /\ \/ pc = "region" /\ page_num < total_pages
       \/ pc = "crop"
    /\ messages' = messages \cup {<<"error", page_num + 1, col_num + 1>>}
    /\ Advance
    /\ UNCHANGED <<total_pages, ocr_text, data, img_height, questions,
                   question_positions, question_tops, i, extracted,
                   processing_stats, returned>>

\* return extracted, processing_stats
Return ==
    /\ pc = "region" /\ page_num = total_pages
    /\ returned' = <<extracted, processing_stats>>
    /\ pc' = "done"
    /\ UNCHANGED <<total_pages, page_num, col_num, ocr_text, data, img_height,
                   questions, question_positions, question_tops, i, extracted,
                   processing_stats, messages>>

\* ------------------------------------------------------------------------
\* The three functions alone: the input is drawn by Init, one step applies
\* the function and `returned` holds what it returns
\* ------------------------------------------------------------------------
RunSplit ==
    /\ pc = "input:split"
    /\ returned' = split_questions_from_ocr_enhanced(ocr_text)
    /\ pc' = "output:split"
    /\ UNCHANGED <<total_pages, page_num, col_num, ocr_text, data, img_height,
                   questions, question_positions, question_tops, i, extracted,
                   processing_stats, messages>>

RunDetect ==
    /\ pc = "input:detect"
    /\ returned' = detect_question_boundaries_advanced(data)
    /\ pc' = "output:detect"
    /\ UNCHANGED <<total_pages, page_num, col_num, ocr_text, data, img_height,
                   questions, question_positions, question_tops, i, extracted,
                   processing_stats, messages>>

RunQuality ==
    /\ pc = "input:quality"
    /\ returned' = validate_ocr_quality(data)
    /\ pc' = "output:quality"
    /\ UNCHANGED <<total_pages, page_num, col_num, ocr_text, data, img_height,
                   questions, question_positions, question_tops, i, extracted,
                   processing_stats, messages>>

\* ------------------------------------------------------------------------
\* Inputs
\* ------------------------------------------------------------------------
MaxPages == 1

MaxPieces == 3

MaxDetectTokens == 3

MaxQualityTokens == 3

MaxColumnTokens == 2

Tok(text, conf, top, left) == [text |-> text, conf |-> conf, top |-> top, left |-> left]

\* sequences of at most n elements of S
RECURSIVE SeqsUpTo(_, _)
SeqsUpTo(S, n) ==
    IF n = 0 THEN {<<>>}
    ELSE Let(SeqsUpTo(S, n - 1), LAMBDA shorter :
             shorter \cup {Append(q, x) : q \in shorter, x \in S})

\* concatenations of at most n elements of S
RECURSIVE ConcatsUpTo(_, _)
ConcatsUpTo(S, n) ==
    IF n = 0 THEN {<<>>}
    ELSE Let(ConcatsUpTo(S, n - 1), LAMBDA shorter :
             shorter \cup {q \o x : q \in shorter, x \in S})

\* the width the two horizontal trims leave: it depends on the pixels
TrimmedWidths == {40, 200}

\* img.height of a rasterised column; every token lies inside the image
PageHeight == 45

\* -- a document: what the recognition engine gives for each column
PageTexts == {<<>>, <<"1", ".", " ", "a">>}

PageData ==
    {<<>>,
     <<Tok(<<"1", ".">>, 60, 20, 0)>>,
     <<Tok(<<"1", ".">>, 60, 20, 0), Tok(<<"2", ".">>, 10, 25, 0)>>,
     <<Tok(<<"2", ".">>, 10, 25, 0), Tok(<<"1", ".">>, 5, 20, 30)>>}

\* -- one column in detail
ColumnTexts ==
    {<<>>, <<"a">>, <<"1", ".", " ", "a">>, <<"1", ",", " ", "a">>}

ColumnTokens ==
    {Tok(text, conf, pos[1], pos[2]) :
        text \in {<<"1", ".">>, <<"Q", "1">>, <<"a">>},
        conf \in {20, 60},
        pos \in {<<20, 0>>, <<20, 30>>, <<25, 0>>}}

ColumnData == SeqsUpTo(ColumnTokens, MaxColumnTokens)

\* -- texts for split_questions_from_ocr_enhanced
Pieces ==
    {<<"1", ".">>, <<"(", "2", ")">>, <<"3", ")">>, <<"Q", "4">>, <<"5", "-">>,
     <<"q", "u", "e", "s", "t", "i", "o", "n", " ", "6">>,
     <<"7", ",">>, <<"\n">>, <<" ">>, <<"a">>, <<"(", "A", ")">>}

Line(marker, body) == marker \o <<" ">> \o body \o <<"\n">>

\* five lines that start with N. and two that start with (N)
FiveAndTwo ==
    Line(<<"1", ".">>, <<"a">>) \o Line(<<"2", ".">>, <<"b">>)
      \o Line(<<"3", ".">>, <<"c">>) \o Line(<<"4", ".">>, <<"d">>)
      \o Line(<<"5", ".">>, <<"e">>) \o Line(<<"(", "1", ")">>, <<"x">>)
      \o Line(<<"(", "2", ")">>, <<"y">>)

Texts == ConcatsUpTo(Pieces, MaxPieces) \cup {FiveAndTwo}

\* -- tokens for detect_question_boundaries_advanced
DetectTokens ==
    {Tok(tc[1], tc[2], top, left) :
        tc \in {<<<<"1", ".">>, 31>>, <<<<"(", "2", ")">>, 90>>, <<<<"1", ".">>, 30>>},
        top \in {0, 8, 10},
        left \in {0, 20}}

DetectData == SeqsUpTo(DetectTokens, MaxDetectTokens)

\* -- tokens for validate_ocr_quality
QualityTokens == {Tok(<<"a">>, conf, 0, 0) : conf \in {-1, 0, 10, 50, 51, 100}}

QualityData == SeqsUpTo(QualityTokens, MaxQualityTokens)

\* ------------------------------------------------------------------------
\* Specifications
\* ------------------------------------------------------------------------
None == "None"

InitLocals ==
    /\ ocr_text = <<>> /\ data = <<>> /\ img_height = 0
    /\ questions = <<>> /\ question_positions = <<>> /\ question_tops = <<>>
    /\ i = 0
    /\ extracted = <<>>
    /\ messages = {}
    /\ returned = None

\* a document of 1..MaxPages pages
Init ==
    /\ pc = "region"
    /\ total_pages \in 1..MaxPages
    /\ page_num = 0 /\ col_num = 0
    /\ processing_stats =
         [total_pages |-> total_pages, questions_found |-> 0, low_quality_pages |-> 0]
    /\ InitLocals

Next ==
    \/ \E text \in PageTexts, d \in PageData : BeginRegion(text, d, PageHeight)
    \/ \E w \in TrimmedWidths : CropStep(w)
    \/ EndRegion
    \/ RegionFail
    \/ Return

Spec == Init /\ [][Next]_vars

\* The right-hand column of a one-page document whose left-hand column was
\* blank: the state Spec reaches by BeginRegion(<<>>, <<>>, PageHeight) and
\* EndRegion.
InitColumn ==
    /\ pc = "region"
    /\ total_pages = 1
    /\ page_num = 0 /\ col_num = 1
    /\ processing_stats =
         [total_pages |-> 1, questions_found |-> 0, low_quality_pages |-> 1]
    /\ ocr_text = <<>> /\ data = <<>> /\ img_height = PageHeight
    /\ questions = <<>> /\ question_positions = <<>>
    /\ question_tops = <<PageHeight>>
    /\ i = 0
    /\ extracted = <<>>
    /\ messages = {<<"warning", 1, 1>>}
    /\ returned = None

NextColumn ==
    \/ \E text \in ColumnTexts, d \in ColumnData : BeginRegion(text, d, PageHeight)
    \/ \E w \in TrimmedWidths : CropStep(w)
    \/ EndRegion
    \/ RegionFail
    \/ Return

SpecColumn == InitColumn /\ [][NextColumn]_vars

\* A document of up to MaxPages + 1 pages, so that the page loop goes round
\* at least once: each column is blank or holds question 1.
DocumentTexts == {<<"1", ".", " ", "a">>}

DocumentData == {<<>>, <<Tok(<<"1", ".">>, 60, 20, 0)>>}

InitDocument ==
    /\ pc = "region"
    /\ total_pages \in 1..(MaxPages + 1)
    /\ page_num = 0 /\ col_num = 0
    /\ processing_stats =
         [total_pages |-> total_pages, questions_found |-> 0, low_quality_pages |-> 0]
    /\ InitLocals

NextDocument ==
    \/ \E text \in DocumentTexts, d \in DocumentData : BeginRegion(text, d, PageHeight)
    \/ \E w \in TrimmedWidths : CropStep(w)
    \/ EndRegion
    \/ RegionFail
    \/ Return

SpecDocument == InitDocument /\ [][NextDocument]_vars

InitFunction ==
    /\ total_pages = 0 /\ page_num = 0 /\ col_num = 0
    /\ processing_stats =
         [total_pages |-> 0, questions_found |-> 0, low_quality_pages |-> 0]
    /\ img_height = 0
    /\ questions = <<>> /\ question_positions = <<>> /\ question_tops = <<>>
    /\ i = 0
    /\ extracted = <<>>
    /\ messages = {}
    /\ returned = None

InitSplit == pc = "input:split" /\ ocr_text \in Texts /\ data = <<>> /\ InitFunction

SpecSplit == InitSplit /\ [][RunSplit]_vars

InitDetect == pc = "input:detect" /\ ocr_text = <<>> /\ data \in DetectData /\ InitFunction

SpecDetect == InitDetect /\ [][RunDetect]_vars

InitQuality == pc = "input:quality" /\ ocr_text = <<>> /\ data \in QualityData /\ InitFunction

SpecQuality == InitQuality /\ [][RunQuality]_vars

\* ------------------------------------------------------------------------
\* Properties
\* ------------------------------------------------------------------------
\* the column's anchors proper: question_tops without the image height
Anchors == SubSeq(question_tops, 1, Len(question_tops) - 1)

\* the records of the column being processed
RegionRecords ==
    {n \in 1..Len(extracted) :
        extracted[n].page = page_num + 1 /\ extracted[n].column = col_num + 1}

\* C1 (as claimed): when both detections found anchors and the geometric one
\* found at least as many as the textual one (more, or a tie), the anchors
\* used for cropping are the tops of the geometric detections.
C1_TieUsesGeometric ==
    (pc = "crop" /\ questions # <<>>
       /\ Len(question_positions) >= Len(questions))
        => Anchors = GeometricTops(question_positions)

\* number of line-start matches of pattern family k in a text
LineStartCount(k, t) == Len(FindIter(k, t, 1))

MaxLineStartCount(t) ==
    CHOOSE c \in {LineStartCount(k, t) : k \in Patterns} :
        \A k \in Patterns : LineStartCount(k, t) <= c

\* the normaliser has no marker to repair or to space out in t
NothingToRepair(t) ==
    /\ FixMarker(t, {"o", "O", "l", ","}) = t
    /\ SpaceAfterNumber(t, 1) = t

\* C2 (as claimed): split_questions_from_ocr_enhanced emits one question per
\* line-start match of the pattern family with the most line-start matches;
\* a text whose lines start with five N. markers and two (N) markers gives
\* exactly five questions, all numbered N.
C2_CountMaximizing ==
    pc = "output:split" =>
        /\ NothingToRepair(ocr_text)
             => Len(returned) = MaxLineStartCount(ocr_text)
        /\ (LineStartCount(1, ocr_text) = 5 /\ LineStartCount(4, ocr_text) = 2)
             => /\ Len(returned) = 5
                /\ \A n \in 1..Len(returned) : MatchesNumberDot(returned[n].num)

\* ---- C3 ----------------------------------------------------------------
IsPrefix(a, b) == Len(a) <= Len(b) /\ SubSeq(b, 1, Len(a)) = a

Errors == {m \in messages : m[1] = "error"}

\* C3: an exception in one column never aborts the run.  The step that
\* catches it leaves the output list and the counters as they are and moves
\* to the next column of the page (or to the first column of the next page);
\* the output list only ever grows at its end; and the function returns only
\* after the last page, returning the whole output list.
C3_FailureIsolated ==
    /\ [][(Errors' # Errors) =>
            /\ extracted' = extracted
            /\ processing_stats' = processing_stats
            /\ pc' = "region"
            /\ <<page_num', col_num'>> =
                 IF col_num = 0 THEN <<page_num, 1>> ELSE <<page_num + 1, 0>>]_vars
    /\ [][IsPrefix(extracted, extracted')]_vars
    /\ [](pc = "done" =>
            /\ page_num = total_pages /\ col_num = 0
            /\ returned = <<extracted, processing_stats>>)

\* the left column of page 1 failed after a record of it was appended, the
\* right column gave a record, and the run returned both
C3_Witness ==
    /\ pc = "done"
    /\ <<"error", 1, 1>> \in messages
    /\ \E n \in 1..Len(extracted) :
          extracted[n].page = 1 /\ extracted[n].column = 1
    /\ \E n \in 1..Len(extracted) :
          extracted[n].page = 1 /\ extracted[n].column = 2
    /\ returned[1] = extracted

\* ---- C4 ----------------------------------------------------------------
CandidateIndices(d) == {n \in 1..Len(d) : IsCandidate(d[n])}

SamePlace(a, b) == a.top = b.top /\ a.left = b.left

KeptAt(detections, tok) ==
    \E n \in 1..Len(detections) : SamePlace(detections[n], tok)

NoTwoClose(detections) ==
    \A m, n \in 1..Len(detections) :
        m # n => ~Close(detections[m], detections[n])

\* token n is the one a returned detection was made from: it is a candidate,
\* the first one at its place, and a detection lies at that place
KeptToken(detections, d, n) ==
    /\ n \in CandidateIndices(d)
    /\ KeptAt(detections, d[n])
    /\ \A m \in CandidateIndices(d) : SamePlace(d[m], d[n]) => n <= m

\* C4 (as claimed): no two returned detections are within 10 pixels
\* vertically and 20 horizontally of each other; and of any two candidate
\* tokens that close, the one seen first wins: the later one is never the
\* one kept.
C4_FirstOfAnyClosePairKept ==
    pc = "output:detect" =>
        /\ NoTwoClose(returned)
        /\ \A m, n \in CandidateIndices(data) :
              (m < n /\ Close(data[m], data[n])) => ~KeptToken(returned, data, n)

\* C4 (amended): no two returned detections are that close; a candidate is
\* missing from the result only if an earlier candidate that is in the result
\* is that close to it (a candidate close only to dropped candidates is
\* kept); and each returned detection carries the text and confidence of the
\* first candidate seen at its place.
C4_DroppedOnlyForEarlierKept ==
    pc = "output:detect" =>
        /\ NoTwoClose(returned)
        /\ \A n \in CandidateIndices(data) :
              \/ KeptAt(returned, data[n])
              \/ \E m \in CandidateIndices(data) :
                    m < n /\ Close(data[m], data[n]) /\ KeptAt(returned, data[m])
        /\ \A r \in 1..Len(returned) :
              \E n \in CandidateIndices(data) :
                 /\ returned[r] = PositionOf(data[n])
                 /\ \A m \in CandidateIndices(data) :
                       SamePlace(data[m], data[n]) => n <= m

\* three candidates in a column, 8 and 2 pixels apart: the second is dropped
\* for the first, the third is kept although it is close to the second
C4_Witness ==
    /\ pc = "output:detect"
    /\ Len(returned) = 2
    /\ \E m, n \in CandidateIndices(data) :
          /\ m < n /\ Close(data[m], data[n])
          /\ ~KeptAt(returned, data[m])
          /\ KeptToken(returned, data, n)

\* ---- C5 ----------------------------------------------------------------
UsedGeometric == Len(question_positions) > Len(questions)

\* C5 (as claimed): the anchors of a column are strictly increasing, and the
\* region cut for one anchor ends exactly where the region cut for the next
\* anchor begins.
C5_StrictAndContiguous ==
    pc = "crop" =>
        \A n \in 1..(Len(Anchors) - 1) :
            /\ Anchors[n] < Anchors[n + 1]
            /\ CropBottom(question_tops, n) = CropTop(question_tops, n + 1)

\* C5 (amended): the anchors of a column never decrease, and increase
\* strictly when they come from the fallback scan (two geometric detections
\* of one row, 20 pixels or more apart horizontally, give equal anchors); the
\* region cut for one anchor ends at the next anchor, and the region cut for
\* the next anchor begins up to 15 pixels above that: consecutive regions
\* overlap by the margin and never leave a gap.
C5_OrderedAndOverlapping ==
    pc = "crop" =>
        /\ \A n \in 1..(Len(question_tops) - 1) :
              question_tops[n] <= question_tops[n + 1]
        /\ \A n \in 1..(Len(Anchors) - 1) :
              /\ ~UsedGeometric => Anchors[n] < Anchors[n + 1]
              /\ CropBottom(question_tops, n) = Anchors[n + 1]
              /\ CropTop(question_tops, n + 1) <= CropBottom(question_tops, n)
              /\ CropBottom(question_tops, n) - CropTop(question_tops, n + 1)
                   = Min(CropMargin, Anchors[n + 1])

\* two geometric detections of one row: equal anchors
C5_Witness ==
    /\ pc = "crop" /\ UsedGeometric
    /\ Len(Anchors) = 2
    /\ Anchors[1] = Anchors[2]

\* ---- C6 ----------------------------------------------------------------
RecordAppended == Len(extracted') = Len(extracted) + 1

\* C6 (as claimed): a record is appended only when its anchor is at least 20
\* pixels above the next anchor (or the image height).
C6_AnchorSpanAtLeastTwenty ==
    [][RecordAppended =>
        question_tops[i + 2] - question_tops[i + 1] >= MinRegionHeight]_vars

\* C6 (amended): a record is appended only when the region cut for it, which
\* begins 15 pixels above its anchor (at 0 if the anchor is nearer the top),
\* is at least 20 pixels tall; its anchor may be as little as 5 pixels above
\* the next anchor.
C6_CropAtLeastTwenty ==
    [][RecordAppended =>
        /\ question_tops[i + 2] - Max(0, question_tops[i + 1] - CropMargin)
             >= MinRegionHeight
        /\ question_tops[i + 2] - question_tops[i + 1]
             >= MinRegionHeight - CropMargin
        /\ LET image == extracted'[Len(extracted')].image
           IN  image.bottom - image.top >= MinRegionHeight]_vars

\* a record was appended for an anchor 5 pixels above the next one
C6_Witness ==
    /\ pc = "crop" /\ i = 1
    /\ Len(Anchors) = 2
    /\ Anchors[2] - Anchors[1] = MinRegionHeight - CropMargin
    /\ RegionRecords # {}
    /\ \A n \in RegionRecords : extracted[n].image.bottom = Anchors[2]

\* ---- C7 ----------------------------------------------------------------
RECURSIVE SumConf(_, _)
SumConf(d, I) ==
    IF I = {} THEN 0
    ELSE LET n == CHOOSE x \in I : TRUE IN d[n].conf + SumConf(d, I \ {n})

\* the tokens whose confidence is known, and those whose confidence is positive
Known(d) == {n \in 1..Len(d) : d[n].conf # -1}

Positive(d) == {n \in 1..Len(d) : d[n].conf >= 1}

\* C7 (as claimed): the column is flagged exactly when the average confidence
\* of the tokens of known confidence (confidence 0 included) is below 50, or
\* there is no such token; an average of exactly 50 is not flagged.
C7_FlaggedBelowFiftyOverKnown ==
    pc = "output:quality" =>
        (returned = FALSE <=>
            \/ Known(data) = {}
            \/ SumConf(data, Known(data)) < QualityThreshold * Cardinality(Known(data)))

\* the average of the positive confidences is at most 50, or there is none
FlaggedByAverage(d) ==
    \/ Positive(d) = {}
    \/ SumConf(d, Positive(d)) <= QualityThreshold * Cardinality(Positive(d))

\* C7 (amended): the column is flagged exactly when the average confidence
\* of the tokens of positive confidence (the unknown sentinel and confidence
\* 0 both left out of the average) is at most 50, or there is no such token;
\* an average of exactly 50 is flagged.
C7_FlaggedAtMostFiftyOverPositive ==
    pc = "output:quality" => (returned = FALSE <=> FlaggedByAverage(data))

\* tokens of confidence 100, 0 and 0: the average over the known ones is
\* under 50 and the column is not flagged
C7_Witness ==
    /\ pc = "output:quality"
    /\ returned = TRUE
    /\ \E n \in 1..Len(data) : data[n].conf = 0
    /\ SumConf(data, Known(data)) < QualityThreshold * Cardinality(Known(data))

\* ---- C8 ----------------------------------------------------------------
\* C8 (as claimed): no stem returned by split_questions_from_ocr_enhanced
\* begins with a question marker: none of the six boundary patterns matches
\* at the start of the stem.
C8_NoLeadingMarker ==
    pc = "output:split" =>
        \A n \in 1..Len(returned) :
            \A k \in Patterns : MatchAt(k, returned[n].text, 1) = NoMatch

\* ---- C9 ----------------------------------------------------------------
\* a marker of one of the six patterns anywhere in the text
HasMarker(t) == \E p \in 1..Len(t), k \in Patterns : GroupEnd(k, t, p) > 0

HasMarkerToken(d) == \E n \in 1..Len(d) : MatchesBoundaryToken(Strip(d[n].text))

EmptySegmentation ==
    /\ questions = <<>>
    /\ question_positions = <<>>
    /\ Anchors = <<>>
    /\ RegionRecords = {}

\* C9 (as claimed): a column whose recognised text and tokens hold no question
\* marker gives no question, no detection and no record.
C9_NoMarkerNoQuestion ==
    (pc = "crop" /\ ~HasMarker(ocr_text) /\ ~HasMarkerToken(data))
        => EmptySegmentation

\* C9 (amended): a column whose recognised text, once preprocess_ocr_text has
\* normalised it (a digit followed by o, O, l or a comma and a whitespace
\* becomes a digit-period marker), holds no question marker, and whose tokens
\* hold none, gives no question, no detection and no record.
C9_NoMarkerAfterNormalising ==
    (pc = "crop" /\ ~HasMarker(preprocess_ocr_text(ocr_text))
       /\ ~HasMarkerToken(data))
        => EmptySegmentation

\* a column of plain words, its crop loop over
C9_Witness ==
    /\ pc = "crop" /\ i = Len(question_tops) - 1
    /\ ocr_text # <<>> /\ data # <<>>
    /\ ~HasMarker(preprocess_ocr_text(ocr_text))
    /\ ~HasMarkerToken(data)

\* ---- C10 ---------------------------------------------------------------
RegionBegun == pc = "region" /\ pc' = "crop"

AllAtMostTen(d) == \A n \in 1..Len(d) : d[n].conf <= 10

Warnings == {m \in messages : m[1] = "warning"}

\* C10: the low-quality counter grows by exactly 1 when a column begins whose
\* quality check fails (in particular a column whose tokens all have
\* confidence 10 or less), however many tokens and questions it has, and no
\* other step changes it; it counts the columns warned about.
C10_OncePerFlaggedRegion ==
    /\ [][processing_stats'.low_quality_pages =
            processing_stats.low_quality_pages
              + (IF RegionBegun /\ (FlaggedByAverage(data') \/ AllAtMostTen(data'))
                 THEN 1 ELSE 0)]_vars
    /\ [](processing_stats.low_quality_pages = Cardinality(Warnings))

\* the right column of page 1 has two tokens of confidence 10 or less and
\* gave two records; the left column was not flagged
C10_Witness ==
    /\ pc = "crop" /\ col_num = 1 /\ i = 2
    /\ Len(data) = 2 /\ AllAtMostTen(data)
    /\ Cardinality(RegionRecords) = 2
    /\ Len(extracted) > 2
    /\ processing_stats.low_quality_pages = 1

\* ---- C11 ---------------------------------------------------------------
PageColumnLE(a, b) ==
    \/ a.page < b.page
    \/ a.page = b.page /\ a.column <= b.column

InPageColumnOrder(records) ==
    \A m, n \in 1..Len(records) : m < n => PageColumnLE(records[m], records[n])

\* C11: at every point of extract_questions_from_columns_enhanced (after each
\* appended record, each skipped span, each failure caught by the except
\* clause, and at the return) processing_stats['questions_found'] is the
\* number of records in the output list; the list changes only by having
\* records appended; and its records are in nondecreasing (page, column)
\* order.
C11_CounterIsLengthAndAppendOnly ==
    /\ [](processing_stats.questions_found = Len(extracted))
    /\ [](InPageColumnOrder(extracted))
    /\ [][IsPrefix(extracted, extracted')]_vars

\* on page 2 of a document: the only span of the right column has just been
\* skipped, after records of page 1 and of the left column of page 2 were
\* appended and the left column of page 1 failed
C11_Witness ==
    /\ pc = "crop" /\ page_num = 1 /\ col_num = 1
    /\ Len(question_tops) = 2 /\ i = 1
    /\ \A n \in 1..Len(extracted) :
          ~(extracted[n].page = 2 /\ extracted[n].column = 2)
    /\ \E n \in 1..Len(extracted) : extracted[n].page = 1
    /\ \E n \in 1..Len(extracted) :
          extracted[n].page = 2 /\ extracted[n].column = 1
    /\ <<"error", 1, 1>> \in messages
    /\ processing_stats.questions_found = Len(extracted)
    /\ Len(extracted) >= 2

====
